---- MODULE Spec2Model ----
(***************************************************************************)
(* Model of sort_benchmark.cpp: the trimmed-mean timing primitive          *)
(* (measure), the pause/resume clock control, the dataset builder's        *)
(* insertion count (make), the winner report (print_winner) and the grid   *)
(* walk of main.                                                           *)
(*                                                                         *)
(* Times on the clock are integers (milliseconds).  A measured time, which *)
(* the code holds as a double, is an exact fraction <<num, den>>.  The     *)
(* erasure rate and every value computed from it are IEEE-754 binary64     *)
(* values, computed with round-to-nearest-even as the compiled code does:  *)
(* the grid's rates are the doubles 0.0, 0.1, 0.2, 0.30000000000000004,    *)
(* ..., 0.8999999999999999, not the decimals.                              *)
(***************************************************************************)
EXTENDS Integers, Sequences, FiniteSets

----------------------------------------------------------------------------
(* Wide naturals: <<hi, lo>> stands for hi * 2^27 + lo, lo < 2^27.  They   *)
(* hold the 53-bit significands of binary64 and the intermediate results   *)
(* of its operations (below 2^58).                                         *)

Limb == 2^27

WNorm(hi, lo) == <<hi + (lo \div Limb), lo % Limb>>

WFromInt(k) == <<k \div Limb, k % Limb>>

WToInt(a) == a[1] * Limb + a[2]

WZero == <<0, 0>>

WOne == <<0, 1>>

WAdd(a, b) == WNorm(a[1] + b[1], a[2] + b[2])

WSub(a, b) ==
  IF a[2] >= b[2] THEN <<a[1] - b[1], a[2] - b[2]>>
                  ELSE <<a[1] - b[1] - 1, a[2] + Limb - b[2]>>

WDouble(a) == WNorm(2 * a[1], 2 * a[2])

WHalf(a) == <<a[1] \div 2, (a[2] + (a[1] % 2) * Limb) \div 2>>

WOdd(a) == a[2] % 2 = 1

WLess(a, b) == a[1] < b[1] \/ (a[1] = b[1] /\ a[2] < b[2])

RECURSIVE WTimes(_, _)
WTimes(a, k) ==
  IF k = 0 THEN WZero
  ELSE IF k % 2 = 1 THEN WAdd(WDouble(WTimes(a, k \div 2)), a)
  ELSE WDouble(WTimes(a, k \div 2))

(* a shifted right by d bits, the bits shifted out OR-ed into the lowest   *)
(* bit kept (the sticky bit of the rounding).                              *)
WHalfJam(a) ==
  IF WOdd(a) /\ ~WOdd(WHalf(a)) THEN WAdd(WHalf(a), WOne) ELSE WHalf(a)

RECURSIVE WShiftRightJam(_, _)
WShiftRightJam(a, d) ==
  IF d = 0 \/ a = WZero THEN a ELSE WShiftRightJam(WHalfJam(a), d - 1)

----------------------------------------------------------------------------
(* binary64: a non-negative finite double is [m, e], its value m * 2^e,    *)
(* with m = 0 (and e = 0) for zero and 2^52 <= m < 2^53 otherwise.  The    *)
(* values of this program are far from the subnormal and overflow ranges.  *)

SigMin == <<2^25, 0>>

SigEnd == <<2^26, 0>>

DZero == [m |-> WZero, e |-> 0]

RECURSIVE DShiftUp(_)
DShiftUp(a) ==
  IF WLess(a.m, SigMin) THEN DShiftUp([m |-> WDouble(a.m), e |-> a.e - 1])
  ELSE a

RECURSIVE DShiftDown(_)
DShiftDown(s) ==
  IF WLess(s.m, SigEnd) THEN s
  ELSE DShiftDown([m |-> WHalf(s.m), e |-> s.e + 1, rb |-> WOdd(s.m),
                   st |-> s.rb \/ s.st])

DRoundUp(s) ==
  IF s.rb /\ (s.st \/ WOdd(s.m)) THEN WAdd(s.m, WOne) ELSE s.m

DRoundShifted(s) ==
  IF DRoundUp(s) = SigEnd THEN [m |-> SigMin, e |-> s.e + 1]
                          ELSE [m |-> DRoundUp(s), e |-> s.e]

(* The double nearest to m * 2^e, ties to the even significand.            *)
DRound(m, e) ==
  IF m = WZero THEN DZero
  ELSE IF WLess(m, SigMin) THEN DShiftUp([m |-> m, e |-> e])
  ELSE DRoundShifted(DShiftDown([m |-> m, e |-> e, rb |-> FALSE, st |-> FALSE]))

DFromInt(k) == DRound(WFromInt(k), 0)

DLess(a, b) ==
  IF b.m = WZero THEN FALSE
  ELSE IF a.m = WZero THEN TRUE
  ELSE a.e < b.e \/ (a.e = b.e /\ WLess(a.m, b.m))

DLeq(a, b) == ~DLess(b, a)

DAddOrdered(x, y) ==
  DRound(WAdd(WTimes(x.m, 8), WShiftRightJam(WTimes(y.m, 8), x.e - y.e)),
         x.e - 3)

DAdd(a, b) ==
  IF a.m = WZero THEN b
  ELSE IF b.m = WZero THEN a
  ELSE IF DLess(a, b) THEN DAddOrdered(b, a) ELSE DAddOrdered(a, b)

(* a - b for a >= b.                                                       *)
DSub(a, b) ==
  IF b.m = WZero THEN a
  ELSE DRound(WSub(WTimes(a.m, 8), WShiftRightJam(WTimes(b.m, 8), a.e - b.e)),
              a.e - 3)

(* One step of the long division: the next quotient bit, with k steps to   *)
(* go.                                                                     *)
DDivStep(s, d) ==
  IF WLess(WDouble(s.r), d)
    THEN [q |-> WDouble(s.q), r |-> WDouble(s.r), k |-> s.k - 1]
    ELSE [q |-> WAdd(WDouble(s.q), WOne), r |-> WSub(WDouble(s.r), d),
          k |-> s.k - 1]

RECURSIVE DDivLoop(_, _)
DDivLoop(s, d) == IF s.k = 0 THEN s ELSE DDivLoop(DDivStep(s, d), d)

(* The quotient bits with the sticky bit: a remainder makes them odd.      *)
DDivJam(s) == IF s.r /= WZero /\ ~WOdd(s.q) THEN WAdd(s.q, WOne) ELSE s.q

(* a / b for b > 0: 56 quotient bits and a sticky bit, then rounded.       *)
DDiv(a, b) ==
  IF a.m = WZero THEN DZero
  ELSE DRound(DDivJam(DDivLoop(IF WLess(a.m, b.m)
                                 THEN [q |-> WZero, r |-> a.m, k |-> 55]
                                 ELSE [q |-> WOne, r |-> WSub(a.m, b.m),
                                       k |-> 55],
                               b.m)),
              a.e - b.e - 55)

RECURSIVE DOddPart(_)
DOddPart(a) ==
  IF WOdd(a.m) THEN a ELSE DOddPart([m |-> WHalf(a.m), e |-> a.e + 1])

RECURSIVE DShiftExp(_)
DShiftExp(a) ==
  IF a.e = 0 THEN DRound(a.m, 0)
  ELSE DShiftExp([m |-> WDouble(a.m), e |-> a.e - 1])

(* a * b for integer-valued a and b whose product is below 2^53, and so    *)
(* exact.                                                                  *)
DMul(a, b) ==
  IF a.m = WZero \/ b.m = WZero THEN DZero
  ELSE DShiftExp([m |-> WTimes(DOddPart(a).m, WToInt(DOddPart(b).m)),
                  e |-> DOddPart(a).e + DOddPart(b).e])

RECURSIVE WShiftRight(_, _)
WShiftRight(a, d) ==
  IF d = 0 \/ a = WZero THEN a ELSE WShiftRight(WHalf(a), d - 1)

(* The conversion (std::size_t)a: the integer part of a, for a < 2^31.     *)
DTrunc(a) ==
  IF a.m = WZero \/ a.e < -52 THEN 0 ELSE WToInt(WShiftRight(a.m, 0 - a.e))

----------------------------------------------------------------------------
VARIABLES
  (* main: the grid walk *)
  ELEMENT_SIZE,     \* the macro ELEMENT_SIZE, which is sizeof(element)
  size_t_bytes,     \* sizeof(std::size_t) of the platform
  erasure_rate,     \* the double erasure_rate of the outer loop
  row,              \* how many times erasure_rate += 0.1 has run
  i,                \* the size exponent of the inner loop
  n,                \* the container size of the current cell
  main_pc,          \* where main is
  th,               \* the reference time (0: not measured)
  il,               \* t1, t2, ... measured so far, print_winner's list
  cell_out,         \* what std::cout received for the last cell of the row
  printed,          \* how many cells have been written to std::cout
  measure_calls,    \* calls of measure for the last cell
  make_calls,       \* calls of make for the last cell
  inserted,         \* c.insert calls of the last completed insertion loop
  (* measure and the clock *)
  now,              \* high_resolution_clock::now(), in ms
  measure_start,    \* the global measure_start
  measure_pause,    \* the global measure_pause
  measure_pc,       \* where measure and the operation it runs are
  op_cost,          \* ms of measured work of one call of the operation
  op_pause,         \* ms the operation spends between pause and resume
  trial,            \* measure's loop variable i
  runs,             \* measure's runs
  t2,               \* measure's t2
  trials,           \* measure's trials, each <<elapsed ms, runs>>
  result,           \* what measure returned last, a fraction <<num, den>>
  trial_begin,      \* the time the current trial began
  paused_sum,       \* the sum of the paused intervals of the current trial
  work,             \* the sum of the measured work of the current trial
  after_abort       \* an operation has thrown between pause and resume

main_vars ==
  <<ELEMENT_SIZE, size_t_bytes, erasure_rate, row, i, n, main_pc, th, il,
    cell_out, printed, measure_calls, make_calls, inserted>>

measure_vars ==
  <<now, measure_start, measure_pause, measure_pc, op_cost, op_pause, trial,
    runs, t2, trials, result, trial_begin, paused_sum, work, after_abort>>

vars == <<main_vars, measure_vars>>

----------------------------------------------------------------------------
(* Bounds of the model.                                                    *)

MaxMeasured == 2       \* measure returns 1..MaxMeasured in the grid walk

MaxTime == 7           \* print_winner's times are 1..MaxTime

MaxTrialValue == 2     \* a drawn batch holds trial values 1..MaxTrialValue

CostStep == 50         \* the measured work of a call is a multiple of it, ms

MaxCostSteps == 3

PauseStep == 500       \* the paused time of a call is a multiple of it, ms

MaxPauseSteps == 1

MaxStart == 300        \* no call of measure begins after this time, ms

MaxRuns == 6           \* a trial's loop is followed at most this many times

MeasuredTimes == 1..MaxMeasured

ElementSizes == {16, 64, 400}

WordSizes == {4, 8}

OpCosts == {k * CostStep : k \in 0..MaxCostSteps}

OpPauses == {k * PauseStep : k \in 0..MaxPauseSteps}

----------------------------------------------------------------------------
(* The doubles of main's loops.                                            *)

DOne == DFromInt(1)

Tenth == DDiv(DFromInt(1), DFromInt(10))

NineTenths == DDiv(DFromInt(9), DFromInt(10))

Pow10(k) == 10 ^ k

RowTestHolds(rate) == DLeq(rate, NineTenths)

RateStep(rate) == DAdd(rate, Tenth)

(* The values erasure_rate takes, the one that ends the loop last.         *)
RECURSIVE RateSeq(_)
RateSeq(s) ==
  IF RowTestHolds(s[Len(s)]) THEN RateSeq(Append(s, RateStep(s[Len(s)])))
  ELSE s

GridRates == {RateSeq(<<DZero>>)[k] : k \in 1..(Len(RateSeq(<<DZero>>)) - 1)}

GridSizes == {Pow10(k) : k \in 3..7}

----------------------------------------------------------------------------
(* make: the insertion count m.                                            *)

(* A variant that rounds the quotient to the nearest integer.               *)
NearestCount(size, rate) ==
  DTrunc(DAdd(DDiv(DFromInt(size), DSub(DOne, rate)),
              DDiv(DFromInt(1), DFromInt(2))))

TruncatedCount(size, rate) == DTrunc(DDiv(DFromInt(size), DSub(DOne, rate)))

(* m of every cell of the grid, computed once.                             *)
CountTable ==
  [c \in GridSizes \X GridRates |-> TruncatedCount(c[1], c[2])]

make_m(size, rate) == CountTable[<<size, rate>>]

----------------------------------------------------------------------------
(* print_winner.  The times are positive integers here; a ratio of two of  *)
(* them is the fraction <<numerator, denominator>>.                        *)

DoubleMax == 2147483647

Min2(a, b) == IF b < a THEN b ELSE a

(* A variant that lets a later equal element win.                          *)
LessOrEqual(a, b) == a <= b

StrictlyLess(a, b) == a < b

RECURSIVE MinElementFrom(_, _, _)
MinElementFrom(s, best, k) ==
  IF k > Len(s) THEN best
  ELSE MinElementFrom(s, IF StrictlyLess(s[k], s[best]) THEN k ELSE best, k + 1)

min_element(s) == MinElementFrom(s, 1, 2)

RECURSIVE NextMinFrom(_, _, _, _)
NextMinFrom(s, it_min, next_min, k) ==
  IF k > Len(s) THEN next_min
  ELSE NextMinFrom(s, it_min,
                   IF k = it_min THEN next_min ELSE Min2(next_min, s[k]),
                   k + 1)

(* A fixed text on std::cout, in the shape of a printed result.            *)
Sentinel(text) ==
  [text |-> text, winner |-> 0, next |-> <<0, 1>>, ref |-> <<0, 1>>]

Report(ref, s, it_min) ==
  [text   |-> "n (ax, bx)",
   winner |-> it_min,
   next   |-> <<NextMinFrom(s, it_min, DoubleMax, 1), s[it_min]>>,
   ref    |-> <<ref, s[it_min]>>]

print_winner(ref, s) == Report(ref, s, min_element(s))

----------------------------------------------------------------------------
(* main.                                                                   *)

size_limit(word) ==
  DMul(DFromInt(IF word = 4 THEN 800 ELSE 2048), DFromInt(1024 * 1024))

(* A variant that tests the footprint after the erasure, n * sizeof.       *)
FootprintNominal(size, rate, esize, word) ==
  DLess(size_limit(word), DMul(DFromInt(size), DFromInt(esize)))

FootprintExceeds(size, rate, esize, word) ==
  DLess(size_limit(word),
        DDiv(DMul(DFromInt(size), DFromInt(esize)), DSub(DOne, rate)))

(* The size test of every cell of the grid, computed once.                 *)
TooLargeTable ==
  [c \in GridSizes \X GridRates \X ElementSizes \X WordSizes |->
     FootprintExceeds(c[1], c[2], c[3], c[4])]

TooLarge(size, rate) ==
  TooLargeTable[<<size, rate, ELEMENT_SIZE, size_t_bytes>>]

NumCompetitors == IF ELEMENT_SIZE <= 2 * size_t_bytes THEN 4 ELSE 2

Idle ==
  /\ now = 0 /\ measure_start = 0 /\ measure_pause = 0
  /\ measure_pc = "idle" /\ op_cost = 0 /\ op_pause = 0
  /\ trial = 0 /\ runs = 0 /\ t2 = 0 /\ trials = <<>> /\ result = <<0, 1>>
  /\ trial_begin = 0 /\ paused_sum = 0 /\ work = 0 /\ after_abort = FALSE

NoCell ==
  /\ th = 0 /\ il = <<>> /\ cell_out = <<>>
  /\ measure_calls = 0 /\ make_calls = 0 /\ inserted = 0

InitMain ==
  /\ ELEMENT_SIZE \in ElementSizes
  /\ size_t_bytes \in WordSizes
  /\ erasure_rate = DZero
  /\ row = 0
  /\ i = 3
  /\ n = 0
  /\ main_pc = "row_test"
  /\ printed = 0
  /\ NoCell
  /\ Idle

(* for(erasure_rate = 0.0; erasure_rate <= 0.9; ...): the test, and the    *)
(* start of the inner loop.                                                *)
RowTest ==
  /\ main_pc = "row_test"
  /\ IF RowTestHolds(erasure_rate)
       THEN main_pc' = "cell_test" /\ i' = 3
       ELSE main_pc' = "exit" /\ i' = i
  /\ UNCHANGED <<ELEMENT_SIZE, size_t_bytes, erasure_rate, row, n, th, il,
                 cell_out, printed, measure_calls, make_calls, inserted>>
  /\ UNCHANGED measure_vars

(* A cell above the size limit: the sentinel, and continue.                *)
CellTooLarge ==
  /\ main_pc = "cell_test"
  /\ i <= 7
  /\ TooLarge(Pow10(i), erasure_rate)
  /\ n' = Pow10(i)
  /\ cell_out' = <<Sentinel("too large")>>
  /\ printed' = printed + 1
  /\ main_pc' = "cell_done"
  /\ UNCHANGED <<ELEMENT_SIZE, size_t_bytes, erasure_rate, row, i, th, il,
                 measure_calls, make_calls, inserted>>
  /\ UNCHANGED measure_vars

(* A cell within the size limit enters the try block.                      *)
CellEnter ==
  /\ main_pc = "cell_test"
  /\ i <= 7
  /\ ~TooLarge(Pow10(i), erasure_rate)
  /\ n' = Pow10(i)
  /\ main_pc' = "measure"
  /\ UNCHANGED <<ELEMENT_SIZE, size_t_bytes, erasure_rate, row, i, th, il,
                 cell_out, printed, measure_calls, make_calls, inserted>>
  /\ UNCHANGED measure_vars

(* measure(sort_hive), measure(sort1), ...: the next call returns a time.  *)
(* Every call of the operation in it has built its dataset with make.      *)
MeasureReturns(t) ==
  /\ main_pc = "measure"
  /\ measure_calls' = measure_calls + 1
  /\ make_calls' = make_calls + 1
  /\ inserted' = make_m(n, erasure_rate)
  /\ IF th = 0 THEN th' = t /\ il' = il
               ELSE th' = th /\ il' = Append(il, t)
  /\ main_pc' = IF Len(il') = NumCompetitors THEN "print" ELSE "measure"
  /\ UNCHANGED <<ELEMENT_SIZE, size_t_bytes, erasure_rate, row, i, n,
                 cell_out, printed>>
  /\ UNCHANGED measure_vars

(* A variant without the catch block.                                      *)
no_handler == <<>>

(* What catch(const std::bad_alloc&) writes.                               *)
bad_alloc_handler == <<Sentinel("out of memory")>>

(* The next call of measure ends in std::bad_alloc, thrown by make (built  *)
(* FALSE) or by the sort (built TRUE) of a call of the operation; the      *)
(* catch block prints the sentinel.  Without a handler the exception       *)
(* leaves main.                                                            *)
MeasureThrows(built) ==
  /\ main_pc = "measure"
  /\ measure_calls' = measure_calls + 1
  /\ make_calls' = make_calls + 1
  /\ inserted' = IF built THEN make_m(n, erasure_rate) ELSE inserted
  /\ cell_out' = bad_alloc_handler
  /\ printed' = printed + Len(cell_out')
  /\ main_pc' = IF cell_out' = <<>> THEN "terminated" ELSE "cell_done"
  /\ UNCHANGED <<ELEMENT_SIZE, size_t_bytes, erasure_rate, row, i, n, th, il>>
  /\ UNCHANGED measure_vars

PrintWinner ==
  /\ main_pc = "print"
  /\ cell_out' = <<print_winner(th, il)>>
  /\ printed' = printed + 1
  /\ main_pc' = "cell_done"
  /\ UNCHANGED <<ELEMENT_SIZE, size_t_bytes, erasure_rate, row, i, n, th, il,
                 measure_calls, make_calls, inserted>>
  /\ UNCHANGED measure_vars

(* ++i: the cell's locals are gone.                                        *)
CellNext ==
  /\ main_pc = "cell_done"
  /\ i' = i + 1
  /\ th' = 0
  /\ il' = <<>>
  /\ cell_out' = <<>>
  /\ measure_calls' = 0
  /\ make_calls' = 0
  /\ inserted' = 0
  /\ main_pc' = "cell_test"
  /\ UNCHANGED <<ELEMENT_SIZE, size_t_bytes, erasure_rate, row, n, printed>>
  /\ UNCHANGED measure_vars

(* The inner loop ends: std::endl and erasure_rate += 0.1.                 *)
RowEnd ==
  /\ main_pc = "cell_test"
  /\ i > 7
  /\ erasure_rate' = RateStep(erasure_rate)
  /\ row' = row + 1
  /\ main_pc' = "row_test"
  /\ UNCHANGED <<ELEMENT_SIZE, size_t_bytes, i, n, th, il, cell_out, printed,
                 measure_calls, make_calls, inserted>>
  /\ UNCHANGED measure_vars

NextMain ==
  \/ RowTest
  \/ CellTooLarge
  \/ CellEnter
  \/ \E t \in MeasuredTimes : MeasureReturns(t)
  \/ \E built \in BOOLEAN : MeasureThrows(built)
  \/ PrintWinner
  \/ CellNext
  \/ RowEnd

SpecMain == InitMain /\ [][NextMain]_vars

----------------------------------------------------------------------------
(* measure, pause_timing and resume_timing.  The operation measured is the *)
(* shape of main's lambdas: pause_timing(); make; resume_timing(); sort.   *)

num_trials == 10

min_time_per_trial == 200

(* Fractions <<num, den>>, den > 0: the doubles measure computes.          *)
FracLess(a, b) == a[1] * b[2] < b[1] * a[2]

FracAdd(a, b) == <<a[1] * b[2] + b[1] * a[2], a[2] * b[2]>>

FracEq(a, b) == a[1] * b[2] = b[1] * a[2]

(* The position element j of s takes in ascending order.                   *)
Rank(s, j) ==
  1 + Cardinality({h \in 1..Len(s) :
                     FracLess(s[h], s[j]) \/ (~FracLess(s[j], s[h]) /\ h < j)})

SortAscending(s) ==
  [k \in 1..Len(s) |-> s[CHOOSE j \in 1..Len(s) : Rank(s, j) = k]]

(* A variant that leaves the trials in the order recorded.                 *)
not_sorted(s) == s

(* std::sort(trials.begin(), trials.end())                                 *)
std_sort(s) == SortAscending(s)

(* std::accumulate(first, last, init): the left fold, each partial sum a   *)
(* value before the next element is added.                                 *)
RECURSIVE Accumulate(_, _, _)
Accumulate(s, k, acc) ==
  IF k > Len(s) THEN acc
  ELSE CHOOSE r \in {Accumulate(s, k + 1, sum) : sum \in {FracAdd(acc, s[k])}} :
         TRUE

FracOver(a, d) == <<a[1], a[2] * d>>

(* [begin + 2, end - 2) of the sorted trials.                              *)
MiddleOf(s) == SubSeq(s, 1 + 2, Len(s) - 2)

(* std::accumulate(begin + 2, end - 2, 0.0) / (size - 4) of the sorted     *)
(* trials.                                                                 *)
TrimmedMean(s) ==
  CHOOSE r \in {FracOver(Accumulate(mid, 1, <<0, 1>>), Len(s) - 4) :
                  mid \in {MiddleOf(std_sort(s))}} : TRUE

InitMeasure ==
  /\ ELEMENT_SIZE = 0 /\ size_t_bytes = 0 /\ erasure_rate = DZero /\ row = 0
  /\ i = 0 /\ n = 0 /\ main_pc = "none" /\ printed = 0
  /\ NoCell
  /\ Idle

(* A caller passes an operation to measure.                                *)
MeasureCall(cost, pause) ==
  /\ measure_pc = "idle"
  /\ now <= MaxStart
  /\ op_cost' = cost
  /\ op_pause' = pause
  /\ trial' = 0
  /\ trials' = <<>>
  /\ runs' = 0
  /\ t2' = 0
  /\ result' = <<0, 1>>
  /\ measure_pc' = "trial"
  /\ UNCHANGED <<now, measure_start, measure_pause, trial_begin, paused_sum,
                 work, after_abort>>
  /\ UNCHANGED main_vars

(* A variant that keeps the previous trial's start.                        *)
StartKept(t) == measure_start

StartOfTrial(t) == t

(* for(i < num_trials): runs = 0; measure_start = now().                   *)
TrialBegin ==
  /\ measure_pc = "trial"
  /\ trial < num_trials
  /\ runs' = 0
  /\ measure_start' = StartOfTrial(now)
  /\ trial_begin' = now
  /\ paused_sum' = 0
  /\ work' = 0
  /\ measure_pc' = "call"
  /\ UNCHANGED <<now, measure_pause, op_cost, op_pause, trial, t2, trials,
                 result, after_abort>>
  /\ UNCHANGED main_vars

(* A variant that does not record the pause.                               *)
PauseKept(t) == measure_pause

PauseMark(t) == t

(* pause_timing(), the first statement of the operation.                   *)
pause_timing ==
  /\ measure_pc = "call"
  /\ measure_pause' = PauseMark(now)
  /\ measure_pc' = "paused"
  /\ UNCHANGED <<now, measure_start, op_cost, op_pause, trial, runs, t2,
                 trials, result, trial_begin, paused_sum, work, after_abort>>
  /\ UNCHANGED main_vars

(* make builds the dataset while the timing is paused.                     *)
MakeDataset ==
  /\ measure_pc = "paused"
  /\ now' = now + op_pause
  /\ paused_sum' = paused_sum + op_pause
  /\ measure_pc' = "built"
  /\ UNCHANGED <<measure_start, measure_pause, op_cost, op_pause, trial, runs,
                 t2, trials, result, trial_begin, work, after_abort>>
  /\ UNCHANGED main_vars

(* make throws std::bad_alloc: measure does not catch it, and the          *)
(* exception leaves measure for the caller's handler.                      *)
MakeThrows ==
  /\ measure_pc = "paused"
  /\ now' = now + op_pause
  /\ after_abort' = TRUE
  /\ measure_pc' = "idle"
  /\ UNCHANGED <<measure_start, measure_pause, op_cost, op_pause, trial, runs,
                 t2, trials, result, trial_begin, paused_sum, work>>
  /\ UNCHANGED main_vars

(* A variant that does not shift the start.                                *)
ResumedNoShift(start, pause, t) == start

(* A variant that restarts the trial's window at every resume.             *)
ResumedAtNow(start, pause, t) == t

Resumed(start, pause, t) == start + (t - pause)

(* resume_timing(): measure_start += now() - measure_pause.                *)
resume_timing ==
  /\ measure_pc = "built"
  /\ measure_start' = Resumed(measure_start, measure_pause, now)
  /\ measure_pc' = "resumed"
  /\ UNCHANGED <<now, measure_pause, op_cost, op_pause, trial, runs, t2,
                 trials, result, trial_begin, paused_sum, work, after_abort>>
  /\ UNCHANGED main_vars

(* The measured work (the sort) returns; ++runs; t2 = now().               *)
RunSort ==
  /\ measure_pc = "resumed"
  /\ now' = now + op_cost
  /\ work' = work + op_cost
  /\ runs' = runs + 1
  /\ t2' = now'
  /\ measure_pc' = "ran"
  /\ UNCHANGED <<measure_start, measure_pause, op_cost, op_pause, trial,
                 trials, result, trial_begin, paused_sum, after_abort>>
  /\ UNCHANGED main_vars

(* The sort throws std::bad_alloc.                                         *)
SortThrows ==
  /\ measure_pc = "resumed"
  /\ now' = now + op_cost
  /\ measure_pc' = "idle"
  /\ UNCHANGED <<measure_start, measure_pause, op_cost, op_pause, trial, runs,
                 t2, trials, result, trial_begin, paused_sum, work, after_abort>>
  /\ UNCHANGED main_vars

(* A variant that also repeats at exactly the floor.                       *)
LoopConditionInclusive(end, start) == end - start <= min_time_per_trial

(* while(t2 - measure_start < min_time_per_trial)                          *)
LoopCondition(end, start) == end - start < min_time_per_trial

LoopAgain ==
  /\ measure_pc = "ran"
  /\ LoopCondition(t2, measure_start)
  /\ runs < MaxRuns
  /\ measure_pc' = "call"
  /\ UNCHANGED <<now, measure_start, measure_pause, op_cost, op_pause, trial,
                 runs, t2, trials, result, trial_begin, paused_sum, work,
                 after_abort>>
  /\ UNCHANGED main_vars

TrialValue(end, start, count) == <<end - start, count>>

(* trials[i] = (t2 - measure_start) / runs; ++i.                           *)
TrialEnd ==
  /\ measure_pc = "ran"
  /\ ~LoopCondition(t2, measure_start)
  /\ trials' = Append(trials, TrialValue(t2, measure_start, runs))
  /\ trial' = trial + 1
  /\ measure_pc' = "trial"
  /\ UNCHANGED <<now, measure_start, measure_pause, op_cost, op_pause, runs,
                 t2, result, trial_begin, paused_sum, work, after_abort>>
  /\ UNCHANGED main_vars

(* The trials are collected: sort them and return the trimmed mean.        *)
MeasureReturn ==
  /\ measure_pc = "trial"
  /\ ~(trial < num_trials)
  /\ result' = TrimmedMean(trials)
  /\ measure_pc' = "returned"
  /\ UNCHANGED <<now, measure_start, measure_pause, op_cost, op_pause, trial,
                 runs, t2, trials, trial_begin, paused_sum, work, after_abort>>
  /\ UNCHANGED main_vars

(* The caller has the result; measure's locals are gone.                   *)
CallerContinues ==
  /\ measure_pc = "returned"
  /\ measure_pc' = "idle"
  /\ UNCHANGED <<now, measure_start, measure_pause, op_cost, op_pause, trial,
                 runs, t2, trials, result, trial_begin, paused_sum, work,
                 after_abort>>
  /\ UNCHANGED main_vars

NextReturning ==
  \/ \E cost \in OpCosts, pause \in OpPauses : MeasureCall(cost, pause)
  \/ TrialBegin
  \/ pause_timing
  \/ MakeDataset
  \/ resume_timing
  \/ RunSort
  \/ LoopAgain
  \/ TrialEnd
  \/ MeasureReturn
  \/ CallerContinues

NextMeasure ==
  \/ NextReturning
  \/ MakeThrows
  \/ SortThrows

(* measure with operations that may throw.                                 *)
SpecMeasure == InitMeasure /\ [][NextMeasure]_vars

(* measure with operations that always return; the program runs on.        *)
SpecReturning == InitMeasure /\ [][NextReturning]_vars /\ WF_vars(NextReturning)

----------------------------------------------------------------------------
(* The trimmed mean of a drawn batch: measure with its ten trials          *)
(* collected, about to sort them.                                          *)

ExampleBatch == <<1, 2, 3, 4, 5, 6, 7, 8, 9, 100>>

Rotated(s, k) == [j \in 1..Len(s) |-> s[((j + k - 1) % Len(s)) + 1]]

Reversed(s) == [j \in 1..Len(s) |-> s[Len(s) + 1 - j]]

Batches ==
  [1..num_trials -> 1..MaxTrialValue]
    \cup {Rotated(ExampleBatch, k) : k \in 0..(num_trials - 1)}
    \cup {Reversed(Rotated(ExampleBatch, k)) : k \in 0..(num_trials - 1)}

InitBatch ==
  /\ ELEMENT_SIZE = 0 /\ size_t_bytes = 0 /\ erasure_rate = DZero /\ row = 0
  /\ i = 0 /\ n = 0 /\ main_pc = "none" /\ printed = 0
  /\ NoCell
  /\ now = 0 /\ measure_start = 0 /\ measure_pause = 0
  /\ measure_pc = "trial" /\ op_cost = 0 /\ op_pause = 0
  /\ trial = num_trials /\ runs = 0 /\ t2 = 0
  /\ \E b \in Batches : trials = [j \in 1..num_trials |-> <<b[j], 1>>]
  /\ result = <<0, 1>>
  /\ trial_begin = 0 /\ paused_sum = 0 /\ work = 0 /\ after_abort = FALSE

SpecBatch == InitBatch /\ [][MeasureReturn]_vars

----------------------------------------------------------------------------
(* print_winner on drawn times: main with a cell's measurements done,      *)
(* about to print.                                                         *)

Times == 1..MaxTime

RefTimes == 1..(MaxTime + 3)

TimeLists == UNION {[1..k -> Times] : k \in 2..4}

InitWinner ==
  /\ ELEMENT_SIZE = 16 /\ size_t_bytes = 8 /\ erasure_rate = DZero /\ row = 0
  /\ i = 3 /\ n = Pow10(3) /\ main_pc = "print" /\ printed = 0
  /\ th \in RefTimes
  /\ il \in TimeLists
  /\ cell_out = <<>>
  /\ measure_calls = 0 /\ make_calls = 0 /\ inserted = 0
  /\ Idle

SpecWinner == InitWinner /\ [][PrintWinner]_vars

----------------------------------------------------------------------------
(* Properties.                                                             *)

RECURSIVE SeqSum(_)
SeqSum(s) == IF s = <<>> THEN 0 ELSE Head(s) + SeqSum(Tail(s))

SeqMin(s) == CHOOSE v \in {s[j] : j \in 1..Len(s)} : \A j \in 1..Len(s) : v <= s[j]

SeqMax(s) == CHOOSE v \in {s[j] : j \in 1..Len(s)} : \A j \in 1..Len(s) : v >= s[j]

FirstAt(s, v) == CHOOSE k \in 1..Len(s) : s[k] = v /\ \A h \in 1..(k - 1) : s[h] /= v

RemoveOne(s, v) == SubSeq(s, 1, FirstAt(s, v) - 1) \o SubSeq(s, FirstAt(s, v) + 1, Len(s))

DropLowest(s) == RemoveOne(s, SeqMin(s))

DropHighest(s) == RemoveOne(s, SeqMax(s))

(* The batch without its 2 smallest and its 2 largest values.              *)
Kept(s) == DropHighest(DropHighest(DropLowest(DropLowest(s))))

TrialNumerators == [j \in 1..Len(trials) |-> trials[j][1]]

IsExampleBatch ==
  {trials[j][1] : j \in 1..Len(trials)} = {ExampleBatch[j] : j \in 1..Len(ExampleBatch)}

(* C1: for every batch of 10 trial values, in whatever order they were     *)
(* recorded, measure returns the mean of the 6 values left when the 2      *)
(* smallest and the 2 largest are removed; {1,...,9,100} gives 5.5.        *)
C1_TrimmedMean ==
  measure_pc = "returned" =>
    /\ Len(trials) = 10
    /\ \A j \in 1..Len(trials) : trials[j][2] = 1
    /\ Len(Kept(TrialNumerators)) = 6
    /\ result[2] > 0
    /\ result[1] * 6 = SeqSum(Kept(TrialNumerators)) * result[2]
    /\ IsExampleBatch => result[1] * 2 = 11 * result[2]

C1_Witness ==
  /\ measure_pc = "returned"
  /\ TrialNumerators = <<100, 1, 2, 3, 4, 5, 6, 7, 8, 9>>
  /\ FracEq(result, <<11, 2>>)

(* C2: every recorded trial ran the operation at least once and ended at   *)
(* the first call after which the elapsed time was >= 200 ms: its elapsed  *)
(* time is >= 200 ms, its repetition count r is the smallest r >= 1 with   *)
(* r * c >= 200 ms for the per-call cost c, and its value elapsed / r is   *)
(* not below c; the loop goes on only while the elapsed time is below      *)
(* 200 ms.                                                                 *)
C2_TrialFloor ==
  /\ \A j \in 1..Len(trials) :
       /\ trials[j][2] >= 1
       /\ trials[j][1] >= 200
       /\ trials[j][2] * op_cost >= 200
       /\ (trials[j][2] - 1) * op_cost < 200
       /\ trials[j][1] >= trials[j][2] * op_cost
  /\ measure_pc = "ran" => runs >= 1
  /\ (measure_pc \in {"call", "paused", "built", "resumed"} /\ runs >= 1) =>
       work < 200
  /\ (measure_pc = "call" /\ runs >= 1) => t2 - measure_start < 200

C2_Witness ==
  /\ measure_pc = "returned"
  /\ op_cost = 150
  /\ op_pause = 500
  /\ trials[10] = <<300, 2>>

(* C3: with one pause_timing ... resume_timing pair in every call, the     *)
(* elapsed time measure reads is the wall time since the trial began less  *)
(* the paused intervals of the trial, which is the measured work alone;    *)
(* every trial value and the result are those of the cost, whatever the    *)
(* paused time.                                                            *)
C3_PauseNeutral ==
  /\ measure_pc = "ran" =>
       /\ t2 - measure_start = (t2 - trial_begin) - paused_sum
       /\ t2 - measure_start = work
       /\ work = runs * op_cost
  /\ \A j \in 1..Len(trials) : trials[j][1] = trials[j][2] * op_cost
  /\ measure_pc = "returned" => FracEq(result, <<op_cost, 1>>)

C3_Witness ==
  /\ measure_pc = "ran"
  /\ op_pause = 500
  /\ paused_sum = 1500
  /\ runs = 3
  /\ t2 - measure_start = 150
  /\ t2 - trial_begin = 1650

FirstMin(s) == CHOOSE k \in 1..Len(s) :
  /\ \A j \in 1..Len(s) : s[k] <= s[j]
  /\ \A j \in 1..(k - 1) : s[j] > s[k]

LeastOther(s, k) == CHOOSE v \in {s[j] : j \in (1..Len(s)) \ {k}} :
  \A j \in (1..Len(s)) \ {k} : v <= s[j]

(* C4: print_winner reports the 1-based index of the first occurrence of   *)
(* the minimum, the smallest time among the other positions over the       *)
(* winner's time (>= 1, and 1 when the minimum is tied), and th over the   *)
(* winner's time; {5, 3, 3, 7} with th = 10 gives 2, 1.0 and 10/3.         *)
C4_WinnerReport ==
  main_pc = "cell_done" =>
    /\ Len(cell_out) = 1
    /\ cell_out[1].winner = FirstMin(il)
    /\ cell_out[1].next = <<LeastOther(il, FirstMin(il)), il[FirstMin(il)]>>
    /\ cell_out[1].next[1] >= cell_out[1].next[2]
    /\ (\E j \in (1..Len(il)) \ {FirstMin(il)} : il[j] = il[FirstMin(il)]) =>
         cell_out[1].next[1] = cell_out[1].next[2]
    /\ cell_out[1].ref = <<th, il[FirstMin(il)]>>
    /\ (il = <<5, 3, 3, 7>> /\ th = 10) =>
         /\ cell_out[1].winner = 2
         /\ cell_out[1].next = <<3, 3>>
         /\ cell_out[1].ref = <<10, 3>>

C4_Witness ==
  /\ main_pc = "cell_done"
  /\ il = <<5, 3, 3, 7>>
  /\ th = 10
  /\ cell_out[1].winner = 2

(* The size test in integers: 10^i * ELEMENT_SIZE / (1 - row/10) against   *)
(* 800 or 2048 times 2^20, both sides multiplied by (10 - row) and divided *)
(* by 2^(i+1).  No cell of the grid lies on the limit, so the rounding of  *)
(* the doubles cannot move a cell across it.                               *)
ExactTooLarge ==
  (5 ^ (i + 1)) * ELEMENT_SIZE >
    (IF size_t_bytes = 4 THEN 800 ELSE 2048) * (2 ^ (19 - i)) * (10 - row)

(* C5: a cell whose inflated footprint exceeds the ceiling (800 MiB with a *)
(* 4-byte size_t, 2 GiB otherwise) gets the "too large" sentinel and no    *)
(* call of measure, of an operation or of make; for every other cell       *)
(* measure is called.                                                      *)
C5_SizeGuard ==
  /\ main_pc \in {"measure", "print"} => ~ExactTooLarge
  /\ main_pc = "cell_done" =>
       /\ n = 10 ^ i
       /\ ExactTooLarge <=> cell_out = <<Sentinel("too large")>>
       /\ ExactTooLarge =>
            measure_calls = 0 /\ make_calls = 0 /\ th = 0 /\ il = <<>>
       /\ ~ExactTooLarge => measure_calls >= 1

C5_Witness ==
  /\ main_pc = "cell_done"
  /\ ELEMENT_SIZE = 64
  /\ size_t_bytes = 8
  /\ row = 8
  /\ i = 7
  /\ cell_out = <<Sentinel("too large")>>
  /\ measure_calls = 0

CellTexts == {"too large", "out of memory", "n (ax, bx)"}

(* C6: std::bad_alloc from a measured operation is caught for its cell     *)
(* only: the cell's output is the "out of memory" sentinel alone, the      *)
(* cell's remaining measurements are skipped, and the walk goes on, so     *)
(* each of the 5 x 10 cells writes exactly one of "too large", "out of     *)
(* memory" or a result.                                                    *)
C6_OneOutputPerCell ==
  /\ main_pc /= "terminated"
  /\ main_pc = "row_test" => printed = 5 * row
  /\ main_pc \in {"cell_test", "measure", "print"} =>
       /\ printed = 5 * row + (i - 3)
       /\ cell_out = <<>>
  /\ main_pc = "cell_done" =>
       /\ printed = 5 * row + (i - 3) + 1
       /\ Len(cell_out) = 1
       /\ cell_out[1].text \in CellTexts
       /\ cell_out[1].text = "out of memory" =>
            /\ cell_out = <<Sentinel("out of memory")>>
            /\ measure_calls >= 1
            /\ Len(il) < NumCompetitors
            /\ measure_calls = (IF th = 0 THEN 0 ELSE 1) + Len(il) + 1
       /\ cell_out[1].text = "n (ax, bx)" =>
            measure_calls = 1 + NumCompetitors
  /\ main_pc = "exit" => row = 10 /\ printed = 50

C6_Witness ==
  /\ main_pc = "cell_done"
  /\ cell_out = <<Sentinel("out of memory")>>
  /\ measure_calls = 3
  /\ row = 9
  /\ i = 7
  /\ printed = 50

(* C7, as claimed: make inserts m = round(n / (1 - erasureRate)) elements, *)
(* the quotient rounded to the nearest integer.                            *)
C7_RoundedCount ==
  inserted > 0 =>
    inserted = (2 * 10 * n + (10 - row)) \div (2 * (10 - row))

(* C7, amended: make inserts m = (size_t)(n / (1 - erasure_rate)), the     *)
(* double quotient truncated toward zero: floor(n / (1 - rate)) in the     *)
(* rows 0.0 to 0.7, and one less than the exact quotient in the rows 0.8   *)
(* and 0.9, whose accumulated doubles lie just below the decimals.         *)
C7_TruncatedCount ==
  inserted > 0 =>
    inserted = IF row <= 7 THEN (10 * n) \div (10 - row)
                           ELSE (10 * n) \div (10 - row) - 1

C7_Witness ==
  /\ main_pc = "measure"
  /\ row = 8
  /\ n = 1000
  /\ inserted = 4999

(* C8, as claimed: measure sets measure_start to the current time before   *)
(* each call of the operation within a trial; measure_pause is written     *)
(* only by pause_timing, and resume_timing is the only other writer of     *)
(* measure_start.                                                          *)
C8_ResetBeforeEachCall ==
  [][/\ measure_pc' = "call" => measure_start' = now'
     /\ measure_pause' /= measure_pause =>
          measure_pc = "call" /\ measure_pc' = "paused"
     /\ measure_start' /= measure_start =>
          \/ measure_pc' = "call"
          \/ measure_pc = "built" /\ measure_pc' = "resumed"]_vars

(* C8, amended: measure sets measure_start to the current time once per    *)
(* trial, before the trial's first call of the operation, and not before   *)
(* the later calls of the trial; measure_pause is written only by          *)
(* pause_timing; the only other writer of measure_start is resume_timing,  *)
(* which adds the time since measure_pause.                                *)
C8_ClockLifecycle ==
  [][/\ (measure_pc = "trial" /\ measure_pc' = "call") =>
          measure_start' = now' /\ runs' = 0
     /\ (measure_pc = "ran" /\ measure_pc' = "call") =>
          measure_start' = measure_start
     /\ measure_pause' /= measure_pause =>
          measure_pc = "call" /\ measure_pc' = "paused"
     /\ (measure_pc = "call" /\ measure_pc' = "paused") =>
          measure_pause' = now'
     /\ measure_start' /= measure_start =>
          \/ measure_pc = "trial" /\ measure_pc' = "call"
          \/ measure_pc = "built" /\ measure_pc' = "resumed"
     /\ (measure_pc = "built" /\ measure_pc' = "resumed") =>
          measure_start' = measure_start + (now - measure_pause)]_vars

C8_Witness ==
  /\ measure_pc = "call"
  /\ runs = 2
  /\ trial = 1
  /\ op_pause = 500
  /\ measure_start /= now
  /\ measure_start = trial_begin + paused_sum

(* C9: with operations that return and add accounted time, every call of   *)
(* measure returns, after exactly 10 trials; with an operation whose       *)
(* accounted time is zero the loop of the first trial never ends.          *)
C9_Terminates ==
  /\ (measure_pc = "trial" /\ trial = 0 /\ op_cost > 0) ~>
       (measure_pc = "returned" /\ trial = 10 /\ Len(trials) = 10)
  /\ [](op_cost = 0 => measure_pc /= "returned" /\ trial = 0)

C9_Witness ==
  /\ measure_pc = "returned"
  /\ op_cost = 50
  /\ op_pause = 500
  /\ trial = 10
  /\ runs = 4

(* C10: after an operation has thrown between pause_timing and             *)
(* resume_timing, every later call of measure is unaffected: the trial's   *)
(* start is the one set in this trial, shifted by this trial's pauses      *)
(* only, every resume_timing reads the measure_pause of its own call, and  *)
(* the elapsed time of every trial is its measured work.                   *)
C10_StaleClockHarmless ==
  after_abort =>
    /\ measure_pc \in {"call", "paused", "resumed", "ran"} =>
         measure_start = trial_begin + paused_sum
    /\ measure_pc = "built" =>
         /\ measure_pause = now - op_pause
         /\ measure_start = trial_begin + paused_sum - op_pause
    /\ measure_pc = "ran" => t2 - measure_start = work
    /\ measure_pc \in {"trial", "call", "paused", "built", "resumed", "ran",
                       "returned"} =>
         \A j \in 1..Len(trials) : trials[j][1] = trials[j][2] * op_cost

C10_Witness ==
  /\ after_abort
  /\ measure_pc = "returned"
  /\ op_pause = 500
  /\ op_cost = 100
  /\ measure_pause > 500

Init == InitMain

Next == NextMain

Spec == SpecMain
====
